---- MODULE Spec2Model ----
(***************************************************************************)
(* Circuit breaker validator: the settlement checks of check_tx.py, the    *)
(* score computation of scores.py and the trade / fee-policy arithmetic of *)
(* models.py, as a state machine over one (on-chain, off-chain) pair of    *)
(* settlement records.                                                     *)
(*                                                                         *)
(* Python integers are unbounded and TLC's are 32-bit, so amounts, prices  *)
(* and the two powers of ten of the source (10**18, 10**12) are counted in *)
(* small units: the formulas are the source's, the magnitudes are not.     *)
(* A Fraction is a pair <<numerator, denominator>> with denominator > 0.   *)
(***************************************************************************)
EXTENDS Integers, Sequences, FiniteSets, TLC

VARIABLES onchain, offchain, pc, results, outcome, failure, ret

vars == <<onchain, offchain, pc, results, outcome, failure, ret>>

-----------------------------------------------------------------------------
(* Program constants (scaled, see above).                                  *)

\* scores.py: NATIVE_TOKEN_PRICE = 10**18
NATIVE_TOKEN_PRICE == 2

\* check_tx.py: SCORE_CHECK_THRESHOLD = 10**12
SCORE_CHECK_THRESHOLD == 2

-----------------------------------------------------------------------------
(* Exact rational arithmetic: math.ceil, int() and round() on a Fraction   *)
(* n/d with d > 0.                                                         *)

\* math.ceil(Fraction(n, d))
ceil(n, d) == -((-n) \div d)

\* int(Fraction(n, d)): truncation toward zero
int(n, d) == IF n >= 0 THEN n \div d ELSE -((-n) \div d)

\* round(Fraction(n, d)): half to even
round(n, d) ==
    LET q == n \div d
        r == n - q * d
    IN  IF 2 * r < d THEN q
        ELSE IF 2 * r > d THEN q + 1
        ELSE IF q % 2 = 0 THEN q ELSE q + 1

min(a, b) == IF a <= b THEN a ELSE b

max(a, b) == IF a >= b THEN a ELSE b

\* The value a function raising ValueError("Order kind ... is invalid.") yields.
InvalidKind == "ValueError"

-----------------------------------------------------------------------------
(* models.py: Quote                                                        *)

effective_sell_amount(quote, kind) ==
    CASE kind = "sell" -> quote.sell_amount
      [] kind = "buy"  -> quote.sell_amount + quote.fee_amount
      [] OTHER         -> InvalidKind

effective_buy_amount(quote, kind) ==
    CASE kind = "sell" ->
             ceil((quote.sell_amount - quote.fee_amount) * quote.buy_amount,
                  quote.sell_amount)
      [] kind = "buy"  -> quote.buy_amount
      [] OTHER         -> InvalidKind

-----------------------------------------------------------------------------
(* models.py: OnchainTrade                                                 *)

volume(trade) ==
    CASE trade.kind = "sell" -> trade.buy_amount
      [] trade.kind = "buy"  -> trade.sell_amount
      [] OTHER               -> InvalidKind

\* variant: the limit of a sell order is rounded down like that of a buy order
surplus_limit_rounded_down(trade) ==
    CASE trade.kind = "sell" ->
             trade.buy_amount
               - int(trade.limit_buy_amount * trade.sell_amount,
                     trade.limit_sell_amount)
      [] trade.kind = "buy"  ->
             int(trade.limit_sell_amount * trade.buy_amount,
                 trade.limit_buy_amount)
               - trade.sell_amount
      [] OTHER               -> InvalidKind

surplus(trade) ==
    CASE trade.kind = "sell" ->
             trade.buy_amount
               - ceil(trade.limit_buy_amount * trade.sell_amount,
                      trade.limit_sell_amount)
      [] trade.kind = "buy"  ->
             int(trade.limit_sell_amount * trade.buy_amount,
                 trade.limit_buy_amount)
               - trade.sell_amount
      [] OTHER               -> InvalidKind

\* variant: every kind but sell is taken for buy
surplus_token_of_defaulted_kind(trade) ==
    IF trade.kind = "sell" THEN trade.buy_token ELSE trade.sell_token

surplus_token(trade) ==
    CASE trade.kind = "sell" -> trade.buy_token
      [] trade.kind = "buy"  -> trade.sell_token
      [] OTHER               -> InvalidKind

\* variant: the improvement on the quote alone, the limit price left out
price_improvement_on_quote_only(trade, quote) ==
    LET eff_sell == effective_sell_amount(quote, trade.kind)
        eff_buy  == effective_buy_amount(quote, trade.kind)
    IN  CASE trade.kind = "sell" ->
                 trade.buy_amount - ceil(eff_buy * trade.sell_amount, eff_sell)
          [] trade.kind = "buy"  ->
                 int(eff_sell * trade.buy_amount, eff_buy) - trade.sell_amount
          [] OTHER               -> InvalidKind

price_improvement(trade, quote) ==
    LET eff_sell == effective_sell_amount(quote, trade.kind)
        eff_buy  == effective_buy_amount(quote, trade.kind)
    IN  CASE trade.kind = "sell" ->
                 min(trade.buy_amount
                       - ceil(eff_buy * trade.sell_amount, eff_sell),
                     surplus(trade))
          [] trade.kind = "buy"  ->
                 min(int(eff_sell * trade.buy_amount, eff_buy)
                       - trade.sell_amount,
                     surplus(trade))
          [] OTHER               -> InvalidKind

-----------------------------------------------------------------------------
(* models.py: the three fee policies.  A policy is a record tagged by      *)
(* type; a factor f = <<n, d>> gives x * f / (1 - f) = x * n / (d - n) and *)
(* x * f / (1 + f) = x * n / (d + n).                                      *)

\* variant: an exact half is rounded up
volume_fee_half_up(trade, factor) ==
    IF trade.kind = "sell"
    THEN (2 * volume(trade) * factor[1] + (factor[2] - factor[1]))
             \div (2 * (factor[2] - factor[1]))
    ELSE (2 * volume(trade) * factor[1] + (factor[2] + factor[1]))
             \div (2 * (factor[2] + factor[1]))

\* volume * factor / (1 -+ factor), rounded, for the trade's kind
volume_fee(trade, factor) ==
    IF trade.kind = "sell"
    THEN round(volume(trade) * factor[1], factor[2] - factor[1])
    ELSE round(volume(trade) * factor[1], factor[2] + factor[1])

\* the trade with `fee` added back
with_fee(trade, fee) ==
    CASE trade.kind = "sell" ->
             [trade EXCEPT !.buy_amount = trade.buy_amount + fee]
      [] trade.kind = "buy"  ->
             [trade EXCEPT !.sell_amount = trade.sell_amount - fee]
      [] OTHER               -> InvalidKind

VolumeFeePolicy_reverse_protocol_fee(policy, trade) ==
    IF trade.kind \notin {"sell", "buy"} THEN InvalidKind
    ELSE with_fee(trade, volume_fee(trade, policy.volume_factor))

\* variant: the surplus fee is taken whole, without the volume cap
SurplusFeePolicy_reverse_protocol_fee_uncapped(policy, trade) ==
    IF trade.kind \notin {"sell", "buy"} THEN InvalidKind
    ELSE LET f == policy.surplus_factor
         IN  with_fee(trade, round(surplus(trade) * f[1], f[2] - f[1]))

SurplusFeePolicy_reverse_protocol_fee(policy, trade) ==
    IF trade.kind \notin {"sell", "buy"} THEN InvalidKind
    ELSE LET f == policy.surplus_factor
             surplus_fee == round(surplus(trade) * f[1], f[2] - f[1])
             cap == volume_fee(trade, policy.surplus_max_volume_factor)
         IN  with_fee(trade, min(surplus_fee, cap))

\* variant: a negative price improvement fee is not raised to zero
PriceImprovementFeePolicy_reverse_protocol_fee_signed(policy, trade) ==
    IF trade.kind \notin {"sell", "buy"} THEN InvalidKind
    ELSE LET f == policy.price_improvement_factor
             price_improvement_fee ==
                 round(price_improvement(trade, policy.quote) * f[1], f[2] - f[1])
             cap == volume_fee(trade, policy.price_improvement_max_volume_factor)
         IN  with_fee(trade, min(price_improvement_fee, cap))

PriceImprovementFeePolicy_reverse_protocol_fee(policy, trade) ==
    IF trade.kind \notin {"sell", "buy"} THEN InvalidKind
    ELSE LET f == policy.price_improvement_factor
             price_improvement_fee ==
                 max(0, round(price_improvement(trade, policy.quote) * f[1],
                              f[2] - f[1]))
             cap == volume_fee(trade, policy.price_improvement_max_volume_factor)
         IN  with_fee(trade, min(price_improvement_fee, cap))

\* FeePolicy.reverse_protocol_fee: dispatch on the concrete policy class
reverse_protocol_fee(policy, trade) ==
    CASE policy.type = "Volume" ->
             VolumeFeePolicy_reverse_protocol_fee(policy, trade)
      [] policy.type = "Surplus" ->
             SurplusFeePolicy_reverse_protocol_fee(policy, trade)
      [] policy.type = "PriceImprovement" ->
             PriceImprovementFeePolicy_reverse_protocol_fee(policy, trade)

\* variant: new_trade is the argument itself, not a copy of it
trade_written_by_reverse_protocol_fee(policy, trade) ==
    IF trade.kind \notin {"sell", "buy"} THEN trade
    ELSE reverse_protocol_fee(policy, trade)

\* new_trade = deepcopy(trade): the fields of the argument after the call.
\* Every assignment of a reversal goes to the copy, whatever the call
\* returns or raises.
trade_after_reverse_protocol_fee(policy, trade) == trade

\* variant: the policies are reversed in the order of the chain, the first
\* one first (i policies remain)
RECURSIVE reverse_fees_in_chain_order(_, _, _)
reverse_fees_in_chain_order(fee_policies, i, raw_trade) ==
    IF i = 0 THEN raw_trade
    ELSE reverse_fees_in_chain_order(fee_policies, i - 1,
             reverse_protocol_fee(fee_policies[Len(fee_policies) - i + 1], raw_trade))

\* the loop of raw_surplus: policies i, i-1, ..., 1 applied to raw_trade
RECURSIVE reverse_fees(_, _, _)
reverse_fees(fee_policies, i, raw_trade) ==
    IF i = 0 THEN raw_trade
    ELSE reverse_fees(fee_policies, i - 1,
                      reverse_protocol_fee(fee_policies[i], raw_trade))

\* A reversal never changes the kind, so the first call that looks at the
\* kind (a reversal, or surplus() for the empty chain) raises iff it is invalid.
raw_surplus(trade, fee_policies) ==
    IF trade.kind \notin {"sell", "buy"} THEN InvalidKind
    ELSE surplus(reverse_fees(fee_policies, Len(fee_policies), trade))

\* variant: raw_trade is the trade itself, and the reversals write to it
trade_written_by_raw_surplus(trade, fee_policies) ==
    IF trade.kind \notin {"sell", "buy"} THEN trade
    ELSE reverse_fees(fee_policies, Len(fee_policies), trade)

\* raw_trade = deepcopy(self): the fields of the trade after raw_surplus.
\* The loop rebinds raw_trade to the trades the reversals return.
trade_after_raw_surplus(trade, fee_policies) == trade

\* variant: the difference taken the other way round
protocol_fee_negated(trade, fee_policies) ==
    IF trade.kind \notin {"sell", "buy"} THEN InvalidKind
    ELSE surplus(trade) - raw_surplus(trade, fee_policies)

\* return self.raw_surplus(fee_policies) - self.surplus()
protocol_fee(trade, fee_policies) ==
    IF trade.kind \notin {"sell", "buy"} THEN InvalidKind
    ELSE raw_surplus(trade, fee_policies) - surplus(trade)

-----------------------------------------------------------------------------
(* scores.py: compute_score.  native_prices and trade_fee_policies are     *)
(* dicts: functions whose DOMAIN is the set of keys.                       *)

\* offchain_data.trade_fee_policies.get(trade.order_uid, [])
fee_policies_of(offchain_data, order_uid) ==
    IF order_uid \in DOMAIN offchain_data.trade_fee_policies
    THEN offchain_data.trade_fee_policies[order_uid]
    ELSE <<>>

\* variant: the surplus is not converted to the buy token
trade_score_in_surplus_token(trade, offchain_data) ==
    LET raw == raw_surplus(trade, fee_policies_of(offchain_data, trade.order_uid))
        price == offchain_data.native_prices[trade.buy_token]
    IN  round(raw * price, NATIVE_TOKEN_PRICE)

\* one iteration of the loop: round(raw_surplus_eth) of one trade
trade_score(trade, offchain_data) ==
    LET raw == raw_surplus(trade, fee_policies_of(offchain_data, trade.order_uid))
        price == offchain_data.native_prices[trade.buy_token]
    IN  IF surplus_token(trade) = trade.sell_token
        THEN round(raw * trade.limit_buy_amount * price,
                   trade.limit_sell_amount * NATIVE_TOKEN_PRICE)
        ELSE round(raw * price, NATIVE_TOKEN_PRICE)

\* offchain_data.native_prices[trade.buy_token] raises KeyError for some trade
compute_score_raises(onchain_data, offchain_data) ==
    \E i \in 1..Len(onchain_data.trades) :
        onchain_data.trades[i].buy_token \notin DOMAIN offchain_data.native_prices

RECURSIVE score_loop(_, _, _, _)
score_loop(trades, offchain_data, i, score) ==
    IF i > Len(trades) THEN score
    ELSE score_loop(trades, offchain_data, i + 1,
                    score + trade_score(trades[i], offchain_data))

\* the returned score; "KeyError" when the price lookup raises
compute_score(onchain_data, offchain_data) ==
    IF compute_score_raises(onchain_data, offchain_data) THEN "KeyError"
    ELSE score_loop(onchain_data.trades, offchain_data, 1, 0)

\* The executed trades after compute_score: the loop calls raw_surplus on
\* each trade, up to and including the first one whose price lookup raises.
trades_after_compute_score(onchain_data, offchain_data) ==
    [i \in 1..Len(onchain_data.trades) |->
        IF \A j \in 1..(i - 1) :
              onchain_data.trades[j].buy_token \in DOMAIN offchain_data.native_prices
        THEN trade_after_raw_surplus(
                 onchain_data.trades[i],
                 fee_policies_of(offchain_data, onchain_data.trades[i].order_uid))
        ELSE onchain_data.trades[i]]

-----------------------------------------------------------------------------
(* check_tx.py: the four checks.  A check that returns yields TRUE or      *)
(* FALSE; <check>_raises names the exception that escapes it, or "none".   *)

\* variant: the executing solver compared with itself
check_solver_of_one_record(onchain_data, offchain_data) ==
    IF onchain_data.solver # onchain_data.solver THEN FALSE ELSE TRUE

\* if onchain_data.solver != offchain_data.solver: return False
check_solver(onchain_data, offchain_data) ==
    IF onchain_data.solver # offchain_data.solver THEN FALSE ELSE TRUE

\* {trade.order_uid: trade for trade in trades}: a later trade replaces an
\* earlier one with the same order_uid
trades_dict(trades) ==
    [u \in {trades[i].order_uid : i \in 1..Len(trades)} |->
        LET last == CHOOSE i \in 1..Len(trades) :
                        /\ trades[i].order_uid = u
                        /\ \A j \in 1..Len(trades) :
                               trades[j].order_uid = u => j <= i
        IN  trades[last]]

\* variant: only a proposed order that was not executed counts
proposed_not_executed(onchain_trades_dict, offchain_trades_dict) ==
    ~(DOMAIN offchain_trades_dict \subseteq DOMAIN onchain_trades_dict)

\* onchain_trades_dict.keys() != offchain_trades_dict.keys()
keys_differ(onchain_trades_dict, offchain_trades_dict) ==
    DOMAIN onchain_trades_dict # DOMAIN offchain_trades_dict

\* variant: the buy amounts are not compared
sell_amounts_differ(onchain_trade, offchain_trade) ==
    onchain_trade.sell_amount # offchain_trade.sell_amount

\* the condition of Check 2 on one matched pair
amounts_differ(onchain_trade, offchain_trade) ==
    \/ onchain_trade.sell_amount # offchain_trade.sell_amount
    \/ onchain_trade.buy_amount # offchain_trade.buy_amount

\* variant: a trade without surplus needs to be accounted for as well
surplus_not_negative_unaccounted(onchain_trade, offchain_data) ==
    /\ surplus(onchain_trade) >= 0
    /\ onchain_trade.order_uid \notin offchain_data.valid_orders
    /\ onchain_trade.owner \notin offchain_data.jit_order_addresses

\* the condition of Check 3 on one executed trade
surplus_unaccounted(onchain_trade, offchain_data) ==
    /\ surplus(onchain_trade) > 0
    /\ onchain_trade.order_uid \notin offchain_data.valid_orders
    /\ onchain_trade.owner \notin offchain_data.jit_order_addresses

check_orders(onchain_data, offchain_data) ==
    LET onchain_trades_dict  == trades_dict(onchain_data.trades)
        offchain_trades_dict == trades_dict(offchain_data.trades)
    IN  \* Check 1: 1-to-1 mapping between executed and proposed trades
        IF keys_differ(onchain_trades_dict, offchain_trades_dict) THEN FALSE
        \* Check 2: executed amounts match proposed amounts
        ELSE IF \E order_uid \in DOMAIN offchain_trades_dict :
                   amounts_differ(onchain_trades_dict[order_uid],
                                  offchain_trades_dict[order_uid])
             THEN FALSE
        \* Check 3: surplus validation for non-standard orders
        ELSE IF \E order_uid \in DOMAIN onchain_trades_dict :
                   surplus_unaccounted(onchain_trades_dict[order_uid], offchain_data)
             THEN FALSE
        ELSE TRUE

check_score_raises(onchain_data, offchain_data) ==
    IF compute_score_raises(onchain_data, offchain_data) THEN "KeyError"
    ELSE "none"

\* variant: a difference of exactly the threshold fails
check_score_at_threshold_fails(onchain_data, offchain_data) ==
    LET computed_score == compute_score(onchain_data, offchain_data)
        competition_score == offchain_data.score
    IN  IF competition_score - computed_score >= SCORE_CHECK_THRESHOLD
        THEN FALSE ELSE TRUE

\* if competition_score - computed_score > SCORE_CHECK_THRESHOLD: return False
check_score(onchain_data, offchain_data) ==
    LET computed_score == compute_score(onchain_data, offchain_data)
        competition_score == offchain_data.score
    IN  IF competition_score - computed_score > SCORE_CHECK_THRESHOLD
        THEN FALSE ELSE TRUE

-----------------------------------------------------------------------------
(* check_tx.py: hook validation.  order_hooks is a dict whose iteration    *)
(* order matters (the loop of check_hooks stops at the first order that    *)
(* fails or raises): a sequence of [order_uid, hooks] entries with         *)
(* distinct keys, in insertion order.                                      *)

\* the candidates with the target and the calldata of `hook`, by position
same_call(candidates, hook) ==
    {i \in 1..Len(candidates) :
        /\ candidates[i].target = hook.target
        /\ candidates[i].calldata = hook.calldata}

\* variant: a candidate counts only with the gas limit of the hook itself
_check_hook_execution_exact_gas(onchain_data, hook, hook_type) ==
    LET candidates == IF hook_type = "pre"
                      THEN onchain_data.hook_candidates.pre_hooks
                      ELSE onchain_data.hook_candidates.post_hooks
    IN  \E i \in 1..Len(candidates) : candidates[i] = hook

\* The loop stops at the first candidate with equal target and calldata:
\* that one decides, by its gas limit alone.
_check_hook_execution(onchain_data, hook, hook_type) ==
    LET candidates == IF hook_type = "pre"
                      THEN onchain_data.hook_candidates.pre_hooks
                      ELSE onchain_data.hook_candidates.post_hooks
        found == same_call(candidates, hook)
    IN  IF found = {} THEN FALSE
        ELSE LET first == CHOOSE i \in found : \A j \in found : i <= j
                 hook_candidate == candidates[first]
             IN  IF /\ hook_candidate.gas_limit # 0
                    /\ hook_candidate.gas_limit < hook.gas_limit
                 THEN FALSE
                 ELSE TRUE

_has_hooks(offchain_data) ==
    \E i \in 1..Len(offchain_data.order_hooks) :
        \/ offchain_data.order_hooks[i].hooks.pre_hooks # <<>>
        \/ offchain_data.order_hooks[i].hooks.post_hooks # <<>>

\* the positions of the off-chain trades of order_uid; empty: ValueError
_find_offchain_trade(offchain_data, order_uid) ==
    {i \in 1..Len(offchain_data.trades) :
        offchain_data.trades[i].order_uid = order_uid}

\* is_first_fill
first_fill(offchain_trade) == offchain_trade.already_executed_amount = 0

\* has_no_hook_candidates
has_no_hook_candidates(onchain_data) ==
    /\ onchain_data.hook_candidates.pre_hooks = <<>>
    /\ onchain_data.hook_candidates.post_hooks = <<>>

\* variant: the pre-hooks are looked up among the post-hook candidates
pre_hooks_looked_up_among_post(onchain_data, hooks) ==
    \E i \in 1..Len(hooks.pre_hooks) :
        ~_check_hook_execution(onchain_data, hooks.pre_hooks[i], "post")

\* the loop over hooks.pre_hooks of a first fill returns False
pre_hook_missing(onchain_data, hooks) ==
    \E i \in 1..Len(hooks.pre_hooks) :
        ~_check_hook_execution(onchain_data, hooks.pre_hooks[i], "pre")

\* the loops of a subsequent fill return False: an expected pre-hook has
\* its target and calldata among the pre-hook candidates
pre_hook_executed_again(onchain_data, hooks) ==
    \E i \in 1..Len(hooks.pre_hooks) :
        same_call(onchain_data.hook_candidates.pre_hooks, hooks.pre_hooks[i]) # {}

\* the loop over hooks.post_hooks returns False
post_hook_missing(onchain_data, hooks) ==
    \E i \in 1..Len(hooks.post_hooks) :
        ~_check_hook_execution(onchain_data, hooks.post_hooks[i], "post")

\* variant: the post-hooks are required on the first fill only
_check_order_hooks_post_on_first_fill_only(onchain_data, offchain_data, order_uid, hooks) ==
    LET found == _find_offchain_trade(offchain_data, order_uid)
    IN  IF found = {} THEN "ValueError"
        ELSE
        LET offchain_trade ==
                offchain_data.trades[CHOOSE i \in found : \A j \in found : i <= j]
            is_first_fill == first_fill(offchain_trade)
        IN  IF has_no_hook_candidates(onchain_data) /\ is_first_fill THEN "False"
            ELSE IF is_first_fill /\ pre_hook_missing(onchain_data, hooks)
                 THEN "False"
            ELSE IF ~is_first_fill /\ pre_hook_executed_again(onchain_data, hooks)
                 THEN "False"
            ELSE IF is_first_fill /\ post_hook_missing(onchain_data, hooks)
                 THEN "False"
            ELSE "True"

\* "True", "False", or "ValueError" when _find_offchain_trade raises
_check_order_hooks(onchain_data, offchain_data, order_uid, hooks) ==
    LET found == _find_offchain_trade(offchain_data, order_uid)
    IN  IF found = {} THEN "ValueError"
        ELSE
        LET offchain_trade ==
                offchain_data.trades[CHOOSE i \in found : \A j \in found : i <= j]
            is_first_fill == first_fill(offchain_trade)
        IN  IF has_no_hook_candidates(onchain_data) /\ is_first_fill THEN "False"
            \* Check pre-hooks (only for the first fill)
            ELSE IF is_first_fill /\ pre_hook_missing(onchain_data, hooks)
                 THEN "False"
            \* For subsequent fills, ensure pre-hooks are NOT executed
            ELSE IF ~is_first_fill /\ pre_hook_executed_again(onchain_data, hooks)
                 THEN "False"
            \* Check post-hooks (always required)
            ELSE IF post_hook_missing(onchain_data, hooks) THEN "False"
            ELSE "True"

\* for order_uid, hooks in offchain_data.order_hooks.items(), from entry i
RECURSIVE hooks_loop(_, _, _)
hooks_loop(onchain_data, offchain_data, i) ==
    IF i > Len(offchain_data.order_hooks) THEN "True"
    ELSE LET entry == offchain_data.order_hooks[i]
             r == _check_order_hooks(onchain_data, offchain_data,
                                     entry.order_uid, entry.hooks)
         IN  IF r = "True" THEN hooks_loop(onchain_data, offchain_data, i + 1)
             ELSE r

\* "True", "False" or "ValueError"
check_hooks_outcome(onchain_data, offchain_data) ==
    IF ~_has_hooks(offchain_data) THEN "True"
    ELSE hooks_loop(onchain_data, offchain_data, 1)

check_hooks_raises(onchain_data, offchain_data) ==
    IF check_hooks_outcome(onchain_data, offchain_data) = "ValueError"
    THEN "ValueError" ELSE "none"

check_hooks(onchain_data, offchain_data) ==
    check_hooks_outcome(onchain_data, offchain_data) = "True"

-----------------------------------------------------------------------------
(* check_tx.py: inspect, and exceptions.py: InvalidSettlement.             *)

NoFailure == [type |-> "none", message |-> <<>>, solver |-> "none"]

\* InvalidSettlement(message, solver=solver): the message is modelled by the
\* values interpolated into it, the "[solver=...]" suffix included.
InvalidSettlement(message, solver) ==
    [type |-> "InvalidSettlement",
     message |-> [text |-> message, suffix_solver |-> solver],
     solver |-> solver]

\* results = [check(onchain_data, offchain_data) for check in checks]: the
\* results of the checks that returned, up to the first one that raises
inspect_results(onchain_data, offchain_data) ==
    LET r12 == <<check_solver(onchain_data, offchain_data),
                 check_orders(onchain_data, offchain_data)>>
    IN  IF check_score_raises(onchain_data, offchain_data) # "none" THEN r12
        ELSE LET r123 == Append(r12, check_score(onchain_data, offchain_data))
             IN  IF check_hooks_raises(onchain_data, offchain_data) # "none"
                 THEN r123
                 ELSE Append(r123, check_hooks(onchain_data, offchain_data))

\* variant: only an exception of check_hooks escapes
inspect_raises_from_hooks_only(onchain_data, offchain_data) ==
    IF check_score_raises(onchain_data, offchain_data) # "none" THEN "none"
    ELSE check_hooks_raises(onchain_data, offchain_data)

\* the exception escaping the list comprehension, or "none"
inspect_raises(onchain_data, offchain_data) ==
    IF check_score_raises(onchain_data, offchain_data) # "none"
    THEN check_score_raises(onchain_data, offchain_data)
    ELSE check_hooks_raises(onchain_data, offchain_data)

all(rs) == \A i \in 1..Len(rs) : rs[i]

\* "success", "InvalidSettlement", or the exception of a check
inspect_outcome(onchain_data, offchain_data) ==
    IF inspect_raises(onchain_data, offchain_data) # "none"
    THEN inspect_raises(onchain_data, offchain_data)
    ELSE IF all(inspect_results(onchain_data, offchain_data)) THEN "success"
    ELSE "InvalidSettlement"

\* variant: the exception names the winning solver of the auction
inspect_failure_names_winner(onchain_data, offchain_data) ==
    IF inspect_outcome(onchain_data, offchain_data) = "InvalidSettlement"
    THEN InvalidSettlement(
             [id |-> onchain_data.auction_id,
              solver |-> onchain_data.solver,
              test_results |-> inspect_results(onchain_data, offchain_data)],
             offchain_data.solver)
    ELSE NoFailure

\* raise InvalidSettlement(message, solver=onchain_data.solver), the message
\* built from auction_id, solver and results
inspect_failure(onchain_data, offchain_data) ==
    IF inspect_outcome(onchain_data, offchain_data) = "InvalidSettlement"
    THEN InvalidSettlement(
             [id |-> onchain_data.auction_id,
              solver |-> onchain_data.solver,
              test_results |-> inspect_results(onchain_data, offchain_data)],
             onchain_data.solver)
    ELSE NoFailure

\* The on-chain record after inspect.  The checks read both records; the
\* only calls that assign to a field are the reversals under compute_score,
\* and check_score always runs (check_solver and check_orders never raise).
onchain_after_inspect(onchain_data, offchain_data) ==
    [onchain_data EXCEPT
        !.trades = trades_after_compute_score(onchain_data, offchain_data)]

-----------------------------------------------------------------------------
(* The records handed to the checks.                                       *)

\* largest executed amount of a trade
MaxAmount == 2

\* largest score reported in the competition
MaxScore == 4

\* largest gas limit of a hook
MaxGas == 2

Uids    == {1, 2}
Owners  == {"o1", "o2"}
Tokens  == {"tA", "tB"}
Solvers == {"s1", "s2"}

\* The order behind an order_uid fixes everything but the executed amounts:
\* odd uids are sell orders of tA for tB, even uids buy orders of tA for tB.
OnchainTrade(order_uid, sell_amount, buy_amount) ==
    [order_uid |-> order_uid,
     sell_amount |-> sell_amount,
     buy_amount |-> buy_amount,
     owner |-> IF order_uid % 2 = 1 THEN "o1" ELSE "o2",
     sell_token |-> IF order_uid % 2 = 1 THEN "tA" ELSE "tB",
     buy_token |-> IF order_uid % 2 = 1 THEN "tB" ELSE "tA",
     limit_sell_amount |-> 3,
     limit_buy_amount |-> 2,
     kind |-> IF order_uid % 2 = 1 THEN "sell" ELSE "buy"]

OffchainTrade(order_uid, sell_amount, buy_amount, already_executed_amount) ==
    [order_uid |-> order_uid,
     sell_amount |-> sell_amount,
     buy_amount |-> buy_amount,
     already_executed_amount |-> already_executed_amount]

Hooks(pre_hooks, post_hooks) == [pre_hooks |-> pre_hooks, post_hooks |-> post_hooks]

\* the sequences over S of length at most n
SeqsUpTo(S, n) == UNION {[1..k -> S] : k \in 0..n}

OnchainTrades ==
    {OnchainTrade(u, s, b) : u \in Uids, s \in 1..MaxAmount, b \in 1..MaxAmount}

OffchainTrades ==
    {OffchainTrade(u, s, b, 0) : u \in Uids, s \in 1..MaxAmount, b \in 1..MaxAmount}

AllPrices == [t \in Tokens |-> NATIVE_TOKEN_PRICE]

OnchainSettlementData(auction_id, tx_hash, solver, trades, hook_candidates) ==
    [auction_id |-> auction_id, tx_hash |-> tx_hash, solver |-> solver,
     trades |-> trades, hook_candidates |-> hook_candidates]

Offchain(solver, trades, score, trade_fee_policies, valid_orders, jit_order_addresses, native_prices, order_hooks) ==
    [auction_id |-> 1, solver |-> solver, trades |-> trades, score |-> score,
     trade_fee_policies |-> trade_fee_policies,
     valid_orders |-> valid_orders,
     jit_order_addresses |-> jit_order_addresses,
     native_prices |-> native_prices,
     order_hooks |-> order_hooks]

\* nothing has been checked yet
Fresh ==
    /\ pc = "ready"
    /\ results = <<>>
    /\ outcome = "pending"
    /\ failure = NoFailure
    /\ ret = "none"

-----------------------------------------------------------------------------
(* Fee policies.                                                           *)

VolumeFeePolicy(volume_factor) ==
    [type |-> "Volume", volume_factor |-> volume_factor]

SurplusFeePolicy(surplus_factor, surplus_max_volume_factor) ==
    [type |-> "Surplus", surplus_factor |-> surplus_factor,
     surplus_max_volume_factor |-> surplus_max_volume_factor]

PriceImprovementFeePolicy(price_improvement_factor, price_improvement_max_volume_factor, quote) ==
    [type |-> "PriceImprovement",
     price_improvement_factor |-> price_improvement_factor,
     price_improvement_max_volume_factor |-> price_improvement_max_volume_factor,
     quote |-> quote]

Quote(sell_amount, buy_amount, fee_amount) ==
    [sell_amount |-> sell_amount, buy_amount |-> buy_amount,
     fee_amount |-> fee_amount]

\* one policy of each class
SomePolicies ==
    {VolumeFeePolicy(<<1, 3>>),
     SurplusFeePolicy(<<1, 2>>, <<1, 3>>),
     PriceImprovementFeePolicy(<<1, 2>>, <<1, 3>>, Quote(2, 1, 0))}

Hook(target, calldata, gas_limit) ==
    [target |-> target, calldata |-> calldata, gas_limit |-> gas_limit]

\* the calls a trace can contain: <<target, calldata>>
HookCalls == {<<"h1", "c1">>, <<"h1", "c2">>, <<"h2", "c1">>}

AllHooks == {Hook(c[1], c[2], g) : c \in HookCalls, g \in 0..MaxGas}

\* the hooks orders ask for: one pre-hook call, one post-hook call
PreHooks  == {Hook("h1", "c1", g) : g \in 0..MaxGas}
PostHooks == {Hook("h2", "c1", g) : g \in 0..MaxGas}

\* an order's hooks: at most one pre-hook and at most one post-hook
OrderHooks ==
    {Hooks(pre, post) : pre \in SeqsUpTo(PreHooks, 1), post \in SeqsUpTo(PostHooks, 1)}

\* the same, any gas limit but MaxGas - 1 left out
FewOrderHooks ==
    {h \in OrderHooks :
        /\ \A i \in 1..Len(h.pre_hooks) : h.pre_hooks[i].gas_limit = MaxGas - 1
        /\ \A i \in 1..Len(h.post_hooks) : h.post_hooks[i].gas_limit = MaxGas - 1}

\* order_hooks: entries with distinct order_uid, in insertion order
OrderHooksDicts(K, V) ==
    {d \in SeqsUpTo([order_uid : K, hooks : V], 2) :
        \A i, j \in 1..Len(d) : d[i].order_uid = d[j].order_uid => i = j}

\* Traces in which one candidate list is arbitrary (up to two candidates)
\* and the other is empty or holds exactly the hooks `expected` asks for.
Traces(expected) ==
    {Hooks(pre, post) :
        pre \in SeqsUpTo(AllHooks, 2), post \in {<<>>, expected.post_hooks}}
    \cup
    {Hooks(pre, post) :
        pre \in {<<>>, expected.pre_hooks}, post \in SeqsUpTo(AllHooks, 2)}

\* off-chain trade lists of up to two trades of one atom each; the trades of
\* one order in one settlement report the same already_executed_amount
FillLists ==
    {l \in SeqsUpTo({OffchainTrade(u, 1, 1, a) : u \in Uids, a \in 0..1}, 2) :
        \A i, j \in 1..Len(l) :
            l[i].order_uid = l[j].order_uid =>
                l[i].already_executed_amount = l[j].already_executed_amount}

\* the dicts with keys in K and values in V
Dicts(K, V) == UNION {[D -> V] : D \in SUBSET K}

-----------------------------------------------------------------------------
(* check_orders alone, on every pair of trade lists of up to two trades.   *)

InitOrders ==
    /\ \E trades \in SeqsUpTo(OnchainTrades, 2) :
          onchain = OnchainSettlementData(1, "tx1", "s1", trades, Hooks(<<>>, <<>>))
    /\ \E trades \in SeqsUpTo(OffchainTrades, 2),
          valid_orders \in SUBSET Uids,
          jit_order_addresses \in SUBSET Owners :
          offchain = Offchain("s1", trades, 0, <<>>, valid_orders,
                              jit_order_addresses, AllPrices, <<>>)
    /\ Fresh

Bool(b) == IF b THEN "True" ELSE "False"

CheckOrders ==
    /\ pc = "ready"
    /\ ret' = Bool(check_orders(onchain, offchain))
    /\ pc' = "check_orders"
    /\ UNCHANGED <<onchain, offchain, results, outcome, failure>>

NextOrders == CheckOrders

SpecOrders == InitOrders /\ [][NextOrders]_vars

-----------------------------------------------------------------------------
(* check_score alone: up to two executed trades, a fee policy chain of at  *)
(* most one policy per order, native prices below, at and above            *)
(* NATIVE_TOKEN_PRICE or missing, and every reported score up to MaxScore. *)

InitScore ==
    /\ \E trades \in SeqsUpTo(OnchainTrades, 2) :
          onchain = OnchainSettlementData(1, "tx1", "s1", trades, Hooks(<<>>, <<>>))
    /\ \E score \in 0..MaxScore,
          trade_fee_policies \in Dicts(Uids, SeqsUpTo(SomePolicies, 1)),
          native_prices \in Dicts(Tokens, 1..(NATIVE_TOKEN_PRICE + 1)) :
          offchain = Offchain("s1", <<>>, score, trade_fee_policies, {}, {},
                              native_prices, <<>>)
    /\ Fresh

CheckScore ==
    /\ pc = "ready"
    /\ ret' = IF check_score_raises(onchain, offchain) # "none"
              THEN check_score_raises(onchain, offchain)
              ELSE Bool(check_score(onchain, offchain))
    /\ pc' = "check_score"
    /\ UNCHANGED <<onchain, offchain, results, outcome, failure>>

NextScore == CheckScore

SpecScore == InitScore /\ [][NextScore]_vars

-----------------------------------------------------------------------------
(* check_hooks alone.  Either one order whose hooks and whose trace vary   *)
(* widely, or up to two order_hooks entries (for orders in the settlement  *)
(* or not) checked against short traces.                                   *)

InitHooks ==
    /\ \/ \E a \in 0..1, expected \in OrderHooks, traced \in BOOLEAN :
            \E trace \in Traces(expected) :
              /\ onchain = OnchainSettlementData(1, "tx1", "s1",
                               <<OnchainTrade(1, 1, 1)>>, trace)
              /\ offchain = Offchain("s1", <<OffchainTrade(1, 1, 1, a)>>, 0, <<>>,
                               {}, {}, AllPrices,
                               IF traced THEN <<[order_uid |-> 1, hooks |-> expected]>>
                               ELSE <<>>)
       \/ \E fills \in FillLists, order_hooks \in OrderHooksDicts(Uids, FewOrderHooks),
             pre \in SeqsUpTo({Hook("h1", "c1", MaxGas - 1)}, 1),
             post \in SeqsUpTo({Hook("h2", "c1", MaxGas - 1)}, 1) :
              /\ onchain = OnchainSettlementData(1, "tx1", "s1",
                               [i \in 1..Len(fills) |->
                                   OnchainTrade(fills[i].order_uid, 1, 1)],
                               Hooks(pre, post))
              /\ offchain = Offchain("s1", fills, 0, <<>>, {}, {}, AllPrices,
                                     order_hooks)
    /\ Fresh

CheckHooks ==
    /\ pc = "ready"
    /\ ret' = check_hooks_outcome(onchain, offchain)
    /\ pc' = "check_hooks"
    /\ UNCHANGED <<onchain, offchain, results, outcome, failure>>

NextHooks == CheckHooks

SpecHooks == InitHooks /\ [][NextHooks]_vars

-----------------------------------------------------------------------------
(* The settlements of one partially fillable order, one atom per fill:     *)
(* the order's hooks stay, the executed amount accumulates, every          *)
(* settlement has its own trace.                                           *)

InitFills ==
    /\ \E expected \in OrderHooks,
          pre \in SeqsUpTo(AllHooks, 1), post \in SeqsUpTo(AllHooks, 1) :
          /\ onchain = OnchainSettlementData(1, "tx1", "s1",
                           <<OnchainTrade(1, 1, 1)>>, Hooks(pre, post))
          /\ offchain = Offchain("s1", <<OffchainTrade(1, 1, 1, 0)>>, 0, <<>>,
                           {}, {}, AllPrices,
                           <<[order_uid |-> 1, hooks |-> expected]>>)
    /\ Fresh

\* the transaction of the n-th settlement
TxHash(n) == IF n = 1 THEN "tx1" ELSE IF n = 2 THEN "tx2" ELSE "tx3"

\* The order is filled again, unless it is filled completely.
NextSettlement ==
    /\ pc = "check_hooks"
    /\ offchain.trades[1].already_executed_amount + onchain.trades[1].sell_amount
         < onchain.trades[1].limit_sell_amount
    /\ \E pre \in SeqsUpTo(AllHooks, 1), post \in SeqsUpTo(AllHooks, 1) :
          onchain' = [onchain EXCEPT !.auction_id = @ + 1,
                                     !.tx_hash = TxHash(onchain.auction_id + 1),
                                     !.hook_candidates = Hooks(pre, post)]
    /\ offchain' = [offchain EXCEPT
                       !.auction_id = @ + 1,
                       !.trades[1].already_executed_amount =
                           @ + onchain.trades[1].sell_amount]
    /\ pc' = "ready"
    /\ ret' = "none"
    /\ UNCHANGED <<results, outcome, failure>>

NextFills == CheckHooks \/ NextSettlement

SpecFills == InitFills /\ [][NextFills]_vars

-----------------------------------------------------------------------------
(* inspect, and check_solver alone: every pair of solvers, auction ids and *)
(* transaction hashes, at most one executed and one proposed trade, a      *)
(* reported score of 0 or MaxScore, the price of tB present or missing,    *)
(* at most one order_hooks entry, a trace with or without its hooks.       *)

Init ==
    /\ \E auction_id \in 1..2, tx_hash \in {"tx1", "tx2"}, solver \in Solvers,
          trades \in SeqsUpTo({OnchainTrade(u, 1, b) :
                                  u \in Uids, b \in 1..MaxAmount}, 1),
          traced \in BOOLEAN :
          onchain = OnchainSettlementData(auction_id, tx_hash, solver, trades,
                        IF traced
                        THEN Hooks(<<Hook("h1", "c1", MaxGas - 1)>>,
                                   <<Hook("h2", "c1", MaxGas - 1)>>)
                        ELSE Hooks(<<>>, <<>>))
    /\ \E solver \in Solvers,
          trades \in SeqsUpTo({OffchainTrade(u, 1, b, a) :
                                  u \in Uids, b \in 1..MaxAmount, a \in 0..1}, 1),
          score \in {0, MaxScore},
          valid_orders \in {{}, Uids},
          native_prices \in {AllPrices, [t \in {"tA"} |-> NATIVE_TOKEN_PRICE]},
          order_hooks \in {d \in OrderHooksDicts(Uids, FewOrderHooks) : Len(d) <= 1} :
          offchain = [Offchain(solver, trades, score, <<>>, valid_orders, {},
                               native_prices, order_hooks)
                         EXCEPT !.auction_id = onchain.auction_id]
    /\ Fresh

Inspect ==
    /\ pc = "ready"
    /\ results' = inspect_results(onchain, offchain)
    /\ outcome' = inspect_outcome(onchain, offchain)
    /\ failure' = inspect_failure(onchain, offchain)
    /\ onchain' = onchain_after_inspect(onchain, offchain)
    /\ pc' = "inspect"
    /\ UNCHANGED <<offchain, ret>>

CheckSolver ==
    /\ pc = "ready"
    /\ ret' = Bool(check_solver(onchain, offchain))
    /\ pc' = "check_solver"
    /\ UNCHANGED <<onchain, offchain, results, outcome, failure>>

Next == Inspect \/ CheckSolver

Spec == Init /\ [][Next]_vars

-----------------------------------------------------------------------------
(* _check_hook_execution alone: one expected hook, pre or post, against    *)
(* every list of up to two candidates; the other candidate list is empty   *)
(* or holds the expected hook.                                             *)

InitExecution ==
    /\ \E hook \in AllHooks, hook_type \in {"pre", "post"},
          candidates \in SeqsUpTo(AllHooks, 2) :
        \E others \in SeqsUpTo({hook}, 1) :
          /\ onchain = OnchainSettlementData(1, "tx1", "s1", <<OnchainTrade(1, 1, 1)>>,
                           IF hook_type = "pre" THEN Hooks(candidates, others)
                           ELSE Hooks(others, candidates))
          /\ offchain = Offchain("s1", <<OffchainTrade(1, 1, 1, 0)>>, 0, <<>>,
                           {}, {}, AllPrices,
                           <<[order_uid |-> 1,
                              hooks |-> IF hook_type = "pre" THEN Hooks(<<hook>>, <<>>)
                                        ELSE Hooks(<<>>, <<hook>>)]>>)
    /\ Fresh

\* the arguments hook_type and hook of the call: the one expected hook of
\* the order
expected_hook_type ==
    IF offchain.order_hooks[1].hooks.pre_hooks # <<>> THEN "pre" ELSE "post"

expected_hook ==
    IF expected_hook_type = "pre" THEN offchain.order_hooks[1].hooks.pre_hooks[1]
    ELSE offchain.order_hooks[1].hooks.post_hooks[1]

CheckHookExecution ==
    /\ pc = "ready"
    /\ ret' = Bool(_check_hook_execution(onchain, expected_hook, expected_hook_type))
    /\ pc' = "_check_hook_execution"
    /\ UNCHANGED <<onchain, offchain, results, outcome, failure>>

NextExecution == CheckHookExecution

SpecExecution == InitExecution /\ [][NextExecution]_vars

-----------------------------------------------------------------------------
(* compute_score alone, on the settlements of InitScore.                   *)

CheckCompute ==
    /\ pc = "ready"
    /\ ret' = compute_score(onchain, offchain)
    /\ pc' = "compute_score"
    /\ UNCHANGED <<onchain, offchain, results, outcome, failure>>

NextCompute == CheckCompute

SpecCompute == InitScore /\ [][NextCompute]_vars

-----------------------------------------------------------------------------
(* The methods of one OnchainTrade: surplus, raw_surplus and protocol_fee  *)
(* of a sell or buy order with any amounts up to MaxAmount and any limits  *)
(* up to MaxLimit, under every chain of up to three fee policies.          *)

\* largest limit amount of an order
MaxLimit == 3

\* an executed trade of order 1 with the given kind, amounts and limits
TradeOf(kind, sell_amount, buy_amount, limit_sell_amount, limit_buy_amount) ==
    [OnchainTrade(1, sell_amount, buy_amount) EXCEPT
        !.kind = kind,
        !.limit_sell_amount = limit_sell_amount,
        !.limit_buy_amount = limit_buy_amount]

\* policies of each class, with different factors and caps
TradePolicies ==
    SomePolicies \cup {VolumeFeePolicy(<<1, 2>>), SurplusFeePolicy(<<1, 3>>, <<1, 2>>)}

InitTrade ==
    /\ \E kind \in {"sell", "buy"},
          sell_amount \in 0..MaxAmount, buy_amount \in 0..MaxAmount,
          limit_sell_amount \in 1..MaxLimit, limit_buy_amount \in 1..MaxLimit :
          onchain = OnchainSettlementData(1, "tx1", "s1",
                        <<TradeOf(kind, sell_amount, buy_amount,
                                  limit_sell_amount, limit_buy_amount)>>,
                        Hooks(<<>>, <<>>))
    /\ \E fee_policies \in SeqsUpTo(TradePolicies, 3) :
          offchain = Offchain("s1", <<>>, 0, [u \in {1} |-> fee_policies], {}, {},
                              AllPrices, <<>>)
    /\ Fresh

Surplus ==
    /\ pc = "ready"
    /\ ret' = surplus(onchain.trades[1])
    /\ pc' = "surplus"
    /\ UNCHANGED <<onchain, offchain, results, outcome, failure>>

RawSurplus ==
    /\ pc = "ready"
    /\ ret' = raw_surplus(onchain.trades[1], offchain.trade_fee_policies[1])
    /\ onchain' = [onchain EXCEPT !.trades[1] =
                       trade_after_raw_surplus(@, offchain.trade_fee_policies[1])]
    /\ pc' = "raw_surplus"
    /\ UNCHANGED <<offchain, results, outcome, failure>>

ProtocolFee ==
    /\ pc = "ready"
    /\ ret' = protocol_fee(onchain.trades[1], offchain.trade_fee_policies[1])
    /\ pc' = "protocol_fee"
    /\ UNCHANGED <<onchain, offchain, results, outcome, failure>>

\* reverse_protocol_fee of the first policy of the chain
ReverseProtocolFee ==
    /\ pc = "ready"
    /\ offchain.trade_fee_policies[1] # <<>>
    /\ ret' = reverse_protocol_fee(offchain.trade_fee_policies[1][1],
                                   onchain.trades[1])
    /\ onchain' = [onchain EXCEPT !.trades[1] =
                       trade_after_reverse_protocol_fee(
                           offchain.trade_fee_policies[1][1], @)]
    /\ pc' = "reverse_protocol_fee"
    /\ UNCHANGED <<offchain, results, outcome, failure>>

NextTrade == Surplus \/ RawSurplus \/ ProtocolFee \/ ReverseProtocolFee

SpecTrade == InitTrade /\ [][NextTrade]_vars

-----------------------------------------------------------------------------
(* One fee policy and one trade: every method of OnchainTrade that looks   *)
(* at the kind, and reverse_protocol_fee of every policy class, on orders  *)
(* of kind sell, buy or neither, with factors from 0 up to 3/5 and quotes  *)
(* with and without a fee.                                                 *)

\* the kinds of the protocol, and one that is none of them
Kinds == {"sell", "buy", "liquidity"}

\* factors in [0, 1)
Factors == {<<0, 1>>, <<1, 3>>, <<1, 2>>, <<3, 5>>}

Quotes == {Quote(2, 1, 0), Quote(1, 2, 0), Quote(2, 2, 1), Quote(1, 1, 1)}

Policies ==
    {VolumeFeePolicy(f) : f \in Factors}
      \cup {SurplusFeePolicy(f, c) : f \in Factors, c \in Factors}
      \cup {PriceImprovementFeePolicy(f, c, q) :
                f \in Factors, c \in Factors, q \in Quotes}

InitPolicy ==
    /\ \E kind \in Kinds,
          sell_amount \in 0..MaxAmount, buy_amount \in 0..MaxAmount,
          limit_sell_amount \in 1..MaxLimit, limit_buy_amount \in 1..MaxLimit :
          onchain = OnchainSettlementData(1, "tx1", "s1",
                        <<TradeOf(kind, sell_amount, buy_amount,
                                  limit_sell_amount, limit_buy_amount)>>,
                        Hooks(<<>>, <<>>))
    /\ \E policy \in Policies :
          offchain = Offchain("s1", <<>>, 0, [u \in {1} |-> <<policy>>], {}, {},
                              AllPrices, <<>>)
    /\ Fresh

Volume ==
    /\ pc = "ready"
    /\ ret' = volume(onchain.trades[1])
    /\ pc' = "volume"
    /\ UNCHANGED <<onchain, offchain, results, outcome, failure>>

SurplusToken ==
    /\ pc = "ready"
    /\ ret' = surplus_token(onchain.trades[1])
    /\ pc' = "surplus_token"
    /\ UNCHANGED <<onchain, offchain, results, outcome, failure>>

\* price_improvement against the quote of a price improvement policy
PriceImprovement ==
    /\ pc = "ready"
    /\ offchain.trade_fee_policies[1][1].type = "PriceImprovement"
    /\ ret' = price_improvement(onchain.trades[1],
                                offchain.trade_fee_policies[1][1].quote)
    /\ pc' = "price_improvement"
    /\ UNCHANGED <<onchain, offchain, results, outcome, failure>>

NextPolicy ==
    Volume \/ Surplus \/ SurplusToken \/ PriceImprovement \/ ReverseProtocolFee

SpecPolicy == InitPolicy /\ [][NextPolicy]_vars

-----------------------------------------------------------------------------
(* inspect called twice on the same records: at most one executed and one  *)
(* proposed trade, a fee policy on every order or none, every reported     *)
(* score up to MaxScore, the price of tB present or missing, at most one   *)
(* order_hooks entry, a trace with or without its hooks.                   *)

InitTwice ==
    /\ \E solver \in Solvers,
          trades \in SeqsUpTo({OnchainTrade(u, 1, b) :
                                  u \in Uids, b \in 1..MaxAmount}, 1),
          traced \in BOOLEAN :
          onchain = OnchainSettlementData(1, "tx1", solver, trades,
                        IF traced
                        THEN Hooks(<<Hook("h1", "c1", MaxGas - 1)>>,
                                   <<Hook("h2", "c1", MaxGas - 1)>>)
                        ELSE Hooks(<<>>, <<>>))
    /\ \E trades \in SeqsUpTo({OffchainTrade(u, 1, b, 0) :
                                  u \in Uids, b \in 1..MaxAmount}, 1),
          score \in 0..MaxScore,
          fee_policies \in SeqsUpTo(TradePolicies, 1),
          native_prices \in {AllPrices, [t \in {"tA"} |-> NATIVE_TOKEN_PRICE]},
          order_hooks \in {d \in OrderHooksDicts(Uids, FewOrderHooks) : Len(d) <= 1} :
          offchain = Offchain("s1", trades, score, [u \in Uids |-> fee_policies],
                              Uids, {}, native_prices, order_hooks)
    /\ Fresh

\* the second call, on the records as the first call left them
InspectAgain ==
    /\ pc = "inspect"
    /\ ret' = [results |-> inspect_results(onchain, offchain),
               outcome |-> inspect_outcome(onchain, offchain),
               failure |-> inspect_failure(onchain, offchain)]
    /\ onchain' = onchain_after_inspect(onchain, offchain)
    /\ pc' = "inspect_again"
    /\ UNCHANGED <<offchain, results, outcome, failure>>

NextTwice == Inspect \/ InspectAgain

SpecTwice == InitTwice /\ [][NextTwice]_vars

-----------------------------------------------------------------------------
(* Claims about inspect and check_solver (Spec).                           *)

\* C1: inspect returns silently if and only if all four checks return
\* True; if at least one of them returns False, inspect raises
\* InvalidSettlement whose solver field equals onchain.solver.
C1_Verdict ==
    pc = "inspect" =>
        /\ outcome = "success" <=>
               (Len(results) = 4 /\ \A i \in 1..4 : results[i])
        /\ (\E i \in 1..Len(results) : ~results[i]) =>
               (outcome = "InvalidSettlement" /\ failure.solver = onchain.solver)

\* C2: inspect never swallows a failed check: whenever the rule of a check
\* is violated (here: of the solver check or of the order check), all four
\* checks are evaluated and the outcome is InvalidSettlement reporting every
\* failed check, not success and not an error raised by another check.
C2_NoFailureSwallowed ==
    ( /\ pc = "inspect"
      /\ \/ onchain.solver # offchain.solver
         \/ ~check_orders(onchain, offchain) )
    => /\ outcome = "InvalidSettlement"
       /\ Len(results) = 4
       /\ results[1] = (onchain.solver = offchain.solver)
       /\ results[2] = check_orders(onchain, offchain)

\* the HexBytes values a failure carries
hex_fields(f) == {f.solver, f.message.suffix_solver, f.message.text.solver}

\* the results of the four checks, in the order of inspect
check_vector ==
    <<check_solver(onchain, offchain), check_orders(onchain, offchain),
      check_score(onchain, offchain), check_hooks(onchain, offchain)>>

\* C3 as claimed: the failure raised by inspect identifies the transaction
\* hash of the settlement, the solver, and the four check results in the
\* order solver, orders, score, hooks.
C3_FailureNamesTransaction ==
    (pc = "inspect" /\ outcome = "InvalidSettlement") =>
        /\ onchain.tx_hash \in hex_fields(failure)
        /\ failure.solver = onchain.solver
        /\ failure.message.text.test_results = check_vector

\* C3 as amended: the InvalidSettlement raised by inspect identifies the
\* auction id of the settlement (the transaction hash is only logged), the
\* solver, and the four check results in the order solver, orders, score,
\* hooks.
C3_FailureDetail ==
    (pc = "inspect" /\ outcome = "InvalidSettlement") =>
        /\ failure.type = "InvalidSettlement"
        /\ failure.message.text.id = onchain.auction_id
        /\ hex_fields(failure) = {onchain.solver}
        /\ failure.message.text.test_results = check_vector
        /\ \E i \in 1..4 : ~failure.message.text.test_results[i]

\* A settlement of the second auction, executed by another solver than the
\* winner, failing the order check and the hook check but not the score
\* check.
C3_Witness ==
    /\ pc = "inspect"
    /\ outcome = "InvalidSettlement"
    /\ onchain.auction_id = 2
    /\ onchain.solver # offchain.solver
    /\ failure.message.text.test_results = <<FALSE, FALSE, TRUE, FALSE>>

\* C8: check_solver returns True if and only if onchain.solver equals
\* offchain.solver.
C8_SolverCheck ==
    pc = "check_solver" => (ret = "True" <=> onchain.solver = offchain.solver)

\* A settlement executed by another solver than the winner is rejected.
C8_Witness ==
    /\ pc = "check_solver"
    /\ ret = "False"
    /\ onchain.solver = "s2"
    /\ offchain.solver = "s1"

-----------------------------------------------------------------------------
(* Claims about check_orders (SpecOrders).                                 *)

\* the order_uid values of a trade list
uids_of(trades) == {trades[i].order_uid : i \in 1..Len(trades)}

\* no order_uid occurs twice in the list
one_trade_per_order(trades) ==
    \A i, j \in 1..Len(trades) : trades[i].order_uid = trades[j].order_uid => i = j

\* C4: check_orders fails whenever the set of order_uid values executed
\* on-chain differs from the set proposed off-chain, whatever the amounts,
\* the surplus, valid_orders and jit_order_addresses are; with both trade
\* lists empty it passes.
C4_Bijection ==
    pc = "check_orders" =>
        /\ uids_of(onchain.trades) # uids_of(offchain.trades) => ret = "False"
        /\ onchain.trades = <<>> /\ offchain.trades = <<>> => ret = "True"

\* An executed order with zero surplus that was never proposed is rejected.
C4_Witness ==
    /\ pc = "check_orders"
    /\ ret = "False"
    /\ offchain.trades = <<>>
    /\ Len(onchain.trades) = 1
    /\ surplus(onchain.trades[1]) = 0
    /\ offchain.valid_orders = {}
    /\ offchain.jit_order_addresses = {}

\* C5: with equal order_uid sets, and each order_uid occurring once in
\* either list, check_orders fails if the on-chain and the off-chain trade
\* of some order_uid differ in sell_amount or in buy_amount.
C5_AmountEquality ==
    ( /\ pc = "check_orders"
      /\ uids_of(onchain.trades) = uids_of(offchain.trades)
      /\ one_trade_per_order(onchain.trades)
      /\ one_trade_per_order(offchain.trades)
      /\ \E i \in 1..Len(onchain.trades), j \in 1..Len(offchain.trades) :
            /\ onchain.trades[i].order_uid = offchain.trades[j].order_uid
            /\ \/ onchain.trades[i].sell_amount # offchain.trades[j].sell_amount
               \/ onchain.trades[i].buy_amount # offchain.trades[j].buy_amount )
    => ret = "False"

\* Two orders, every order valid, one buy_amount off by one atom: rejected.
C5_Witness ==
    /\ pc = "check_orders"
    /\ ret = "False"
    /\ Len(onchain.trades) = 2
    /\ Len(offchain.trades) = 2
    /\ uids_of(onchain.trades) = Uids
    /\ uids_of(offchain.trades) = Uids
    /\ offchain.valid_orders = Uids
    /\ \E i, j \in 1..2 :
          /\ onchain.trades[i].order_uid = offchain.trades[j].order_uid
          /\ onchain.trades[i].sell_amount = offchain.trades[j].sell_amount
          /\ onchain.trades[i].buy_amount + 1 = offchain.trades[j].buy_amount
    /\ \E i, j \in 1..2 :
          /\ onchain.trades[i].order_uid = offchain.trades[j].order_uid
          /\ onchain.trades[i].sell_amount = offchain.trades[j].sell_amount
          /\ onchain.trades[i].buy_amount = offchain.trades[j].buy_amount

\* every trade of one list has the amounts of every trade of the same order
\* in the other list
amounts_match(onchain_trades, offchain_trades) ==
    \A i \in 1..Len(onchain_trades), j \in 1..Len(offchain_trades) :
        onchain_trades[i].order_uid = offchain_trades[j].order_uid =>
            /\ onchain_trades[i].sell_amount = offchain_trades[j].sell_amount
            /\ onchain_trades[i].buy_amount = offchain_trades[j].buy_amount

\* C6: with equal order_uid sets and matching amounts, check_orders returns
\* True if and only if every on-chain trade with surplus() > 0 has its
\* order_uid in valid_orders or its owner in jit_order_addresses; a trade
\* with surplus() <= 0 is never rejected by this rule.
C6_SurplusLegitimacy ==
    ( /\ pc = "check_orders"
      /\ uids_of(onchain.trades) = uids_of(offchain.trades)
      /\ amounts_match(onchain.trades, offchain.trades) )
    => ( ret = "True" <=>
           \A i \in 1..Len(onchain.trades) :
               surplus(onchain.trades[i]) > 0 =>
                   \/ onchain.trades[i].order_uid \in offchain.valid_orders
                   \/ onchain.trades[i].owner \in offchain.jit_order_addresses )

\* Accepted: a trade with positive surplus outside the auction whose owner
\* is a JIT address, next to a trade without surplus that is neither.
C6_Witness ==
    /\ pc = "check_orders"
    /\ ret = "True"
    /\ offchain.valid_orders = {}
    /\ \E i, j \in 1..Len(onchain.trades) :
          /\ surplus(onchain.trades[i]) > 0
          /\ onchain.trades[i].owner \in offchain.jit_order_addresses
          /\ surplus(onchain.trades[j]) <= 0
          /\ onchain.trades[j].owner \notin offchain.jit_order_addresses

-----------------------------------------------------------------------------
(* Claims about check_score (SpecScore).                                   *)

-----------------------------------------------------------------------------
(* Claims about check_hooks (SpecHooks, SpecFills).                        *)

\* no candidate has the target and the calldata of the hook
no_entry_for(hook, candidates) ==
    \A i \in 1..Len(candidates) :
        \/ candidates[i].target # hook.target
        \/ candidates[i].calldata # hook.calldata

\* the order has an off-chain trade, and it is the order's first fill
on_first_fill(order_uid) ==
    /\ \E i \in 1..Len(offchain.trades) : offchain.trades[i].order_uid = order_uid
    /\ \A i \in 1..Len(offchain.trades) :
          offchain.trades[i].order_uid = order_uid =>
              offchain.trades[i].already_executed_amount = 0

\* every order_hooks entry belongs to an order of the settlement
no_stray_entry ==
    \A k \in 1..Len(offchain.order_hooks) :
        \E i \in 1..Len(offchain.trades) :
            offchain.trades[i].order_uid = offchain.order_hooks[k].order_uid

\* C9: for an order with at least one expected hook on its first fill,
\* check_hooks fails (it does not return True, and returns False unless an
\* entry of another order makes it raise) if the trace has neither pre-hook
\* nor post-hook candidates, and fails if some expected pre-hook has no
\* entry with its target and calldata among the pre-hook candidates.
C9_FirstFillHooks ==
    pc = "check_hooks" =>
        \A k \in 1..Len(offchain.order_hooks) :
            LET entry == offchain.order_hooks[k]
                unmet ==
                    \/ /\ onchain.hook_candidates.pre_hooks = <<>>
                       /\ onchain.hook_candidates.post_hooks = <<>>
                    \/ \E i \in 1..Len(entry.hooks.pre_hooks) :
                          no_entry_for(entry.hooks.pre_hooks[i],
                                       onchain.hook_candidates.pre_hooks)
            IN  ( /\ on_first_fill(entry.order_uid)
                  /\ entry.hooks.pre_hooks # <<>> \/ entry.hooks.post_hooks # <<>>
                  /\ unmet )
                => /\ ret # "True"
                   /\ no_stray_entry => ret = "False"

\* First fill of an order with a pre-hook and a post-hook: the post-hook is
\* in the trace, the pre-hook candidates are other calls; rejected.
C9_Witness ==
    /\ pc = "check_hooks"
    /\ ret = "False"
    /\ Len(offchain.order_hooks) = 1
    /\ on_first_fill(offchain.order_hooks[1].order_uid)
    /\ Len(offchain.order_hooks[1].hooks.pre_hooks) = 1
    /\ offchain.order_hooks[1].hooks.post_hooks # <<>>
    /\ onchain.hook_candidates.post_hooks = offchain.order_hooks[1].hooks.post_hooks
    /\ Len(onchain.hook_candidates.pre_hooks) = 2
    /\ no_entry_for(offchain.order_hooks[1].hooks.pre_hooks[1],
                    onchain.hook_candidates.pre_hooks)

\* the expected hook is in the trace as it is, and no other candidate has
\* its target and calldata
executed_exactly(hook, candidates) ==
    /\ \E i \in 1..Len(candidates) : candidates[i] = hook
    /\ \A i \in 1..Len(candidates) :
          (candidates[i].target = hook.target
             /\ candidates[i].calldata = hook.calldata) => candidates[i] = hook

\* C10: over the settlements of one order (already_executed_amount 0 in the
\* first, greater in every later one) check_hooks requires every expected
\* post-hook in every settlement and the expected pre-hooks only in the
\* first: a settlement whose trace lacks an expected post-hook fails
\* whatever the fill, one that lacks an expected pre-hook fails on the
\* first fill, and a later fill with its post-hooks executed passes
\* without any pre-hook candidate.
C10_PostHooksEveryFill ==
    pc = "check_hooks" =>
        LET hooks == offchain.order_hooks[1].hooks
            executed == offchain.trades[1].already_executed_amount
            trace == onchain.hook_candidates
        IN  /\ (\E i \in 1..Len(hooks.post_hooks) :
                   no_entry_for(hooks.post_hooks[i], trace.post_hooks))
               => ret = "False"
            /\ ( /\ executed = 0
                 /\ \E i \in 1..Len(hooks.pre_hooks) :
                       no_entry_for(hooks.pre_hooks[i], trace.pre_hooks) )
               => ret = "False"
            /\ ( /\ executed > 0
                 /\ trace.pre_hooks = <<>>
                 /\ \A i \in 1..Len(hooks.post_hooks) :
                       executed_exactly(hooks.post_hooks[i], trace.post_hooks) )
               => ret = "True"

\* The third settlement of an order with a pre-hook and a post-hook, whose
\* trace holds another call in place of the post-hook: rejected.
C10_Witness ==
    /\ pc = "check_hooks"
    /\ ret = "False"
    /\ offchain.trades[1].already_executed_amount = 2
    /\ offchain.order_hooks[1].hooks.pre_hooks # <<>>
    /\ Len(offchain.order_hooks[1].hooks.post_hooks) = 1
    /\ onchain.hook_candidates.pre_hooks = <<>>
    /\ Len(onchain.hook_candidates.post_hooks) = 1
    /\ no_entry_for(offchain.order_hooks[1].hooks.post_hooks[1],
                    onchain.hook_candidates.post_hooks)

\* every expected post-hook of the order (entry 1 of order_hooks) is in the
\* trace as it is
post_hooks_executed ==
    \A i \in 1..Len(offchain.order_hooks[1].hooks.post_hooks) :
        executed_exactly(offchain.order_hooks[1].hooks.post_hooks[i],
                         onchain.hook_candidates.post_hooks)

\* C11: on a subsequent fill the result of check_hooks does not depend on
\* hook_candidates.pre_hooks (it is the result for the same settlement with
\* the pre-hook candidates removed), and with all expected post-hooks in
\* the trace it passes, whether or not the expected pre-hooks appear among
\* the pre-hook candidates.
C11_PreHookCandidatesIgnored ==
    (pc = "check_hooks" /\ offchain.trades[1].already_executed_amount > 0) =>
        /\ ret = check_hooks_outcome(
                     [onchain EXCEPT !.hook_candidates.pre_hooks = <<>>], offchain)
        /\ post_hooks_executed => ret = "True"

-----------------------------------------------------------------------------
(* Claims about _check_hook_execution (SpecExecution).                     *)

\* the candidate list the call looks at
candidates_of_call ==
    IF expected_hook_type = "pre" THEN onchain.hook_candidates.pre_hooks
    ELSE onchain.hook_candidates.post_hooks

\* the candidate stands for the call of the hook: equal target and calldata
calls_hook(candidate, hook) ==
    candidate.target = hook.target /\ candidate.calldata = hook.calldata

-----------------------------------------------------------------------------
(* Claims about the entries of order_hooks (SpecHooks).                    *)

\* order_hooks without its k-th entry
without_entry(order_hooks, k) ==
    SubSeq(order_hooks, 1, k - 1) \o SubSeq(order_hooks, k + 1, Len(order_hooks))

\* the entry expects no hook at all
expects_nothing(entry) ==
    entry.hooks.pre_hooks = <<>> /\ entry.hooks.post_hooks = <<>>

\* C13: an order whose expected Hooks has empty pre_hooks and empty
\* post_hooks never causes check_hooks to fail: the result is the one the
\* settlement has without that entry, whatever the order's
\* already_executed_amount, the hook candidates and the hooks of the other
\* orders of the settlement are; and check_hooks returns True when no order
\* has any hook.
C13_EmptyHooksNeverFail ==
    (pc = "check_hooks" /\ no_stray_entry) =>
        /\ \A k \in 1..Len(offchain.order_hooks) :
              expects_nothing(offchain.order_hooks[k]) =>
                  ret = check_hooks_outcome(onchain,
                            [offchain EXCEPT !.order_hooks = without_entry(@, k)])
        /\ (\A k \in 1..Len(offchain.order_hooks) :
               expects_nothing(offchain.order_hooks[k])) => ret = "True"

\* the entry belongs to no off-chain trade of the settlement
stray(entry) ==
    \A i \in 1..Len(offchain.trades) : offchain.trades[i].order_uid # entry.order_uid

\* C14: check_hooks judges exactly the off-chain trades of the settlement:
\* an entry of order_hooks with non-empty hooks for an order_uid that is not
\* among offchain.trades neither changes the result (it is the result
\* without that entry) nor makes check_hooks end with an error.
C14_StrayEntriesIgnored ==
    pc = "check_hooks" =>
        \A k \in 1..Len(offchain.order_hooks) :
            ( /\ stray(offchain.order_hooks[k])
              /\ ~expects_nothing(offchain.order_hooks[k]) )
            => /\ ret \in {"True", "False"}
               /\ ret = check_hooks_outcome(onchain,
                            [offchain EXCEPT !.order_hooks = without_entry(@, k)])

-----------------------------------------------------------------------------
(* Claims about compute_score (SpecCompute).                               *)

\* the integer nearest to n/d (d > 0), the even one of two equally near
round_half_even(n, d) ==
    LET m == (IF n < 0 THEN -n ELSE n) \div d + 1
    IN  CHOOSE r \in (-m)..m :
            LET twice == 2 * (n - r * d)
                distance == IF twice < 0 THEN -twice ELSE twice
            IN  distance < d \/ (distance = d /\ r % 2 = 0)

\* what one trade is claimed to add to the score
claimed_value(trade) ==
    LET chain == IF trade.order_uid \in DOMAIN offchain.trade_fee_policies
                 THEN offchain.trade_fee_policies[trade.order_uid] ELSE <<>>
        to_buy_token == IF surplus_token(trade) = trade.sell_token
                        THEN <<trade.limit_buy_amount, trade.limit_sell_amount>>
                        ELSE <<1, 1>>
    IN  round_half_even(
            raw_surplus(trade, chain) * to_buy_token[1]
                * offchain.native_prices[trade.buy_token],
            to_buy_token[2] * NATIVE_TOKEN_PRICE)

\* the sum of claimed_value over the trades from position i on
RECURSIVE claimed_sum(_, _)
claimed_sum(trades, i) ==
    IF i > Len(trades) THEN 0
    ELSE claimed_value(trades[i]) + claimed_sum(trades, i + 1)

\* every executed trade's buy token has a native price
all_priced ==
    \A i \in 1..Len(onchain.trades) :
        onchain.trades[i].buy_token \in DOMAIN offchain.native_prices

\* trade_fee_policies without the entries of orders not in the settlement
settled_fee_policies ==
    [u \in DOMAIN offchain.trade_fee_policies \cap uids_of(onchain.trades) |->
        offchain.trade_fee_policies[u]]

\* C15: when every executed trade's buy token has a native price,
\* compute_score is the sum over the on-chain trades of
\* round_half_even(raw_surplus(chain) * c * native_prices[buy_token] /
\* NATIVE_TOKEN_PRICE), chain the order's entry of trade_fee_policies or
\* empty, c = limit_buy_amount / limit_sell_amount when the surplus token
\* is the sell token and 1 otherwise; entries of trade_fee_policies for
\* orders not in the settlement do not affect it, and the score of an empty
\* trade list is 0.
C15_ScoreIsSumOfTradeValues ==
    (pc = "compute_score" /\ all_priced) =>
        /\ ret = claimed_sum(onchain.trades, 1)
        /\ ret = compute_score(onchain,
                     [offchain EXCEPT !.trade_fee_policies = settled_fee_policies])
        /\ onchain.trades = <<>> => ret = 0

\* Two trades, the first with its surplus in the sell token and a fee
\* chain, the second with its surplus in the buy token and no entry in
\* trade_fee_policies; one adds to the score and the other takes from it.
C15_Witness ==
    /\ pc = "compute_score"
    /\ all_priced
    /\ Len(onchain.trades) = 2
    /\ surplus_token(onchain.trades[1]) = onchain.trades[1].sell_token
    /\ surplus_token(onchain.trades[2]) = onchain.trades[2].buy_token
    /\ claimed_value(onchain.trades[1]) > 0
    /\ claimed_value(onchain.trades[2]) < 0
    /\ onchain.trades[1].order_uid \in DOMAIN offchain.trade_fee_policies
    /\ offchain.trade_fee_policies[onchain.trades[1].order_uid] # <<>>
    /\ onchain.trades[2].order_uid \notin DOMAIN offchain.trade_fee_policies
    /\ ret = claimed_value(onchain.trades[1]) + claimed_value(onchain.trades[2])

C17_MissingPriceCountsAsZero ==
    ( /\ pc = "compute_score"
      /\ Len(onchain.trades) = 1
      /\ raw_surplus(onchain.trades[1],
                     fee_policies_of(offchain, onchain.trades[1].order_uid)) = 0
      /\ DOMAIN offchain.native_prices = {} )
    => /\ ~compute_score_raises(onchain, offchain)
       /\ ret = 0

-----------------------------------------------------------------------------
(* Claims about the methods of OnchainTrade (SpecTrade).                   *)

\* the least integer not below n/d, for n >= 0 and d > 0
ceiling_of(n, d) == CHOOSE c \in 0..n : c * d >= n /\ (c - 1) * d < n

\* the greatest integer not above n/d, for n >= 0 and d > 0
floor_of(n, d) == CHOOSE f \in 0..n : f * d <= n /\ (f + 1) * d > n

\* C18: for every trade with non-negative amounts and positive limits,
\* surplus() of a sell order is
\* buy_amount - ceil(limit_buy_amount * sell_amount / limit_sell_amount) and
\* of a buy order
\* floor(limit_sell_amount * buy_amount / limit_buy_amount) - sell_amount,
\* with exact division on the amounts of the (partial) fill.
C18_SurplusRounding ==
    pc = "surplus" =>
        LET trade == onchain.trades[1]
        IN  IF trade.kind = "sell"
            THEN ret = trade.buy_amount
                         - ceiling_of(trade.limit_buy_amount * trade.sell_amount,
                                      trade.limit_sell_amount)
            ELSE ret = floor_of(trade.limit_sell_amount * trade.buy_amount,
                                trade.limit_buy_amount)
                         - trade.sell_amount

\* A partial fill of a sell order whose limit price does not divide: the
\* limit is rounded up, and the trade has no surplus although rounding down
\* would give it one.
C18_Witness ==
    /\ pc = "surplus"
    /\ onchain.trades[1].kind = "sell"
    /\ 0 < onchain.trades[1].sell_amount
    /\ onchain.trades[1].sell_amount < onchain.trades[1].limit_sell_amount
    /\ (onchain.trades[1].limit_buy_amount * onchain.trades[1].sell_amount)
           % onchain.trades[1].limit_sell_amount # 0
    /\ ret = 0
    /\ onchain.trades[1].buy_amount * onchain.trades[1].limit_sell_amount
           > onchain.trades[1].limit_buy_amount * onchain.trades[1].sell_amount

\* p1.reverse(p2.reverse(... pn.reverse(trade))) for the chain <<p1, ..., pn>>
RECURSIVE reversed_right_to_left(_, _)
reversed_right_to_left(chain, trade) ==
    IF chain = <<>> THEN trade
    ELSE reverse_protocol_fee(Head(chain), reversed_right_to_left(Tail(chain), trade))

\* pn.reverse(... p2.reverse(p1.reverse(trade))) for the chain <<p1, ..., pn>>
RECURSIVE reversed_left_to_right(_, _)
reversed_left_to_right(chain, trade) ==
    IF chain = <<>> THEN trade
    ELSE reversed_left_to_right(Tail(chain), reverse_protocol_fee(Head(chain), trade))

\* C19: raw_surplus(fee_policies) applies the reversals in reverse order of
\* the chain: for a chain [p1, ..., pn] it is surplus() of
\* p1.reverse(p2.reverse(... pn.reverse(trade))), each step computed on the
\* result of the previous one; for the empty chain it is surplus().
C19_ReverseOrder ==
    pc = "raw_surplus" =>
        LET trade == onchain.trades[1]
            chain == offchain.trade_fee_policies[1]
        IN  /\ ret = surplus(reversed_right_to_left(chain, trade))
            /\ chain = <<>> => ret = surplus(trade)

\* A chain of several policies for which the order matters: reversing the
\* first policy first would give another raw surplus.
C19_Witness ==
    /\ pc = "raw_surplus"
    /\ Len(offchain.trade_fee_policies[1]) >= 2
    /\ ret # surplus(reversed_left_to_right(offchain.trade_fee_policies[1],
                                            onchain.trades[1]))
    /\ ret # surplus(onchain.trades[1])

\* the fee amount a reversal step adds back in the surplus token: what it
\* adds to the buy amount of a sell order, or takes off the sell amount of a
\* buy order
fee_added_back(before, after) ==
    IF before.kind = "sell" THEN after.buy_amount - before.buy_amount
    ELSE before.sell_amount - after.sell_amount

\* the sum of the fee amounts of the reversal steps of raw_surplus on the
\* chain: the step of the first policy acts on the trade the later policies
\* have already been reversed on
RECURSIVE sum_of_fees(_, _)
sum_of_fees(chain, trade) ==
    IF chain = <<>> THEN 0
    ELSE LET before == reversed_right_to_left(Tail(chain), trade)
         IN  fee_added_back(before, reverse_protocol_fee(Head(chain), before))
               + sum_of_fees(Tail(chain), trade)

\* C20: for every trade and every fee chain, protocol_fee(chain) is
\* raw_surplus(chain) - surplus(), and this is the sum of the fee amounts
\* added back by the individual reversal steps of the chain, so that
\* raw_surplus = surplus + sum of the per-policy fees; for the empty chain
\* protocol_fee is 0.
C20_ProtocolFeeIsSumOfFees ==
    pc = "protocol_fee" =>
        LET trade == onchain.trades[1]
            chain == offchain.trade_fee_policies[1]
        IN  /\ ret = surplus(reversed_right_to_left(chain, trade)) - surplus(trade)
            /\ ret = sum_of_fees(chain, trade)
            /\ surplus(reversed_right_to_left(chain, trade))
                 = surplus(trade) + sum_of_fees(chain, trade)
            /\ chain = <<>> => ret = 0

\* A chain of three policies each of which adds back a fee of its own; the
\* protocol fee is their sum.
C20_Witness ==
    /\ pc = "protocol_fee"
    /\ Len(offchain.trade_fee_policies[1]) = 3
    /\ \A i \in 1..3 :
          LET before == reversed_right_to_left(
                            SubSeq(offchain.trade_fee_policies[1], i + 1, 3),
                            onchain.trades[1])
          IN  fee_added_back(before,
                  reverse_protocol_fee(offchain.trade_fee_policies[1][i], before)) > 0
    /\ ret >= 3

-----------------------------------------------------------------------------
(* Claims about the fee policies (SpecPolicy).                             *)

\* the trade and the policy of a call, and the trade it returned
the_trade == onchain.trades[1]

the_policy == offchain.trade_fee_policies[1][1]

reversed_by(type) ==
    /\ pc = "reverse_protocol_fee"
    /\ the_policy.type = type
    /\ the_trade.kind \in {"sell", "buy"}

\* x * f / (1 - f) as a fraction <<numerator, denominator>>
over_one_minus(x, f) == <<x * f[1], f[2] - f[1]>>

\* volume * f / (1 - f) for a sell order, volume * f / (1 + f) for a buy order
unrounded_volume_fee(trade, f) ==
    IF trade.kind = "sell"
    THEN <<trade.buy_amount * f[1], f[2] - f[1]>>
    ELSE <<trade.sell_amount * f[1], f[2] + f[1]>>

\* the smaller of two fractions with positive denominators
smaller(a, b) == IF a[1] * b[2] <= b[1] * a[2] THEN a ELSE b

\* the trade with the fee added to what the order receives (sell) or taken
\* off what it pays (buy)
adjusted(trade, fee) ==
    IF trade.kind = "sell"
    THEN [trade EXCEPT !.buy_amount = trade.buy_amount + fee]
    ELSE [trade EXCEPT !.sell_amount = trade.sell_amount - fee]

\* C21: SurplusFeePolicy.reverse_protocol_fee adjusts the trade by
\* fee = round_half_even(min(surplus() * f / (1 - f), volume_fee)), f the
\* surplus_factor and volume_fee the Volume formula with
\* surplus_max_volume_factor (divisor 1 - factor for sell, 1 + factor for
\* buy): the volume fee is a cap, and rounding each candidate before the
\* minimum gives the fee of rounding the minimum.
C21_SurplusFeeCapped ==
    reversed_by("Surplus") =>
        LET least == smaller(over_one_minus(surplus(the_trade), the_policy.surplus_factor),
                             unrounded_volume_fee(the_trade,
                                 the_policy.surplus_max_volume_factor))
        IN  ret = adjusted(the_trade, round_half_even(least[1], least[2]))

\* The cap decides: the volume fee is smaller than the surplus fee, the two
\* round to different integers, and a fee is added back.
C21_Witness ==
    /\ reversed_by("Surplus")
    /\ LET a == over_one_minus(surplus(the_trade), the_policy.surplus_factor)
           b == unrounded_volume_fee(the_trade, the_policy.surplus_max_volume_factor)
       IN  /\ b[1] * a[2] < a[1] * b[2]
           /\ round_half_even(b[1], b[2]) < round_half_even(a[1], a[2])
           /\ round_half_even(b[1], b[2]) > 0
           /\ ret = adjusted(the_trade, round_half_even(b[1], b[2]))

\* the least integer not below n/d, for any n and d > 0
ceiling_signed(n, d) == IF n >= 0 THEN ceiling_of(n, d) ELSE -floor_of(-n, d)

\* the effective amounts of a quote for an order of the given kind
claimed_eff_sell(quote, kind) ==
    IF kind = "sell" THEN quote.sell_amount
    ELSE quote.sell_amount + quote.fee_amount

claimed_eff_buy(quote, kind) ==
    IF kind = "sell"
    THEN ceiling_signed((quote.sell_amount - quote.fee_amount) * quote.buy_amount,
                        quote.sell_amount)
    ELSE quote.buy_amount

\* the improvement of a trade on the quote
quote_improvement(trade, quote) ==
    IF trade.kind = "sell"
    THEN trade.buy_amount
           - ceiling_of(claimed_eff_buy(quote, "sell") * trade.sell_amount,
                        claimed_eff_sell(quote, "sell"))
    ELSE floor_of(claimed_eff_sell(quote, "buy") * trade.buy_amount,
                  claimed_eff_buy(quote, "buy"))
           - trade.sell_amount

\* min(quote improvement, surplus())
claimed_price_improvement(trade, quote) ==
    LET a == quote_improvement(trade, quote)
        b == surplus(trade)
    IN  IF a <= b THEN a ELSE b

\* C22: PriceImprovementFeePolicy.reverse_protocol_fee takes
\* max(0, price_improvement(quote)) as base quantity:
\* fee = min(round_half_even(max(0, price_improvement) * f / (1 - f)),
\* volume_fee cap), so that a trade with zero or negative price improvement
\* is returned with unchanged sell_amount and buy_amount.
C22_PriceImprovementFee ==
    reversed_by("PriceImprovement") =>
        LET improvement == claimed_price_improvement(the_trade, the_policy.quote)
            base == IF improvement > 0 THEN improvement ELSE 0
            fee == over_one_minus(base, the_policy.price_improvement_factor)
            cap == unrounded_volume_fee(the_trade,
                       the_policy.price_improvement_max_volume_factor)
            rounded_fee == round_half_even(fee[1], fee[2])
            rounded_cap == round_half_even(cap[1], cap[2])
        IN  /\ ret = adjusted(the_trade,
                         IF rounded_fee <= rounded_cap THEN rounded_fee ELSE rounded_cap)
            /\ improvement <= 0 =>
                  /\ ret.sell_amount = the_trade.sell_amount
                  /\ ret.buy_amount = the_trade.buy_amount

\* A trade worse than the quote by enough for a fee of -1 or less, under a
\* cap that would allow a fee: it comes back with its amounts.
C22_Witness ==
    /\ reversed_by("PriceImprovement")
    /\ LET improvement == claimed_price_improvement(the_trade, the_policy.quote)
           fee == over_one_minus(improvement, the_policy.price_improvement_factor)
           cap == unrounded_volume_fee(the_trade,
                      the_policy.price_improvement_max_volume_factor)
       IN  /\ improvement < 0
           /\ round_half_even(fee[1], fee[2]) < 0
           /\ round_half_even(cap[1], cap[2]) > 0
    /\ ret = the_trade

\* C23: VolumeFeePolicy.reverse_protocol_fee computes
\* fee = volume * factor / (1 - factor) for a sell order and
\* volume * factor / (1 + factor) for a buy order, rounds it half to even
\* (an exact half goes to the even neighbour, not up and not truncated), and
\* returns buy_amount + fee for sell and sell_amount - fee for buy.
C23_VolumeFee ==
    reversed_by("Volume") =>
        LET fee == unrounded_volume_fee(the_trade, the_policy.volume_factor)
        IN  /\ ret = adjusted(the_trade, round_half_even(fee[1], fee[2]))
            /\ 2 * (fee[1] % fee[2]) = fee[2] =>
                  LET below == fee[1] \div fee[2]
                  IN  ret = adjusted(the_trade,
                                     IF below % 2 = 0 THEN below ELSE below + 1)

\* A fee of exactly one and a half is added back as 2.
C23_Witness ==
    /\ reversed_by("Volume")
    /\ LET fee == unrounded_volume_fee(the_trade, the_policy.volume_factor)
       IN  2 * fee[1] = 3 * fee[2]
    /\ ret = adjusted(the_trade, 2)

\* C24: price_improvement(quote) is min(quote improvement, surplus()), the
\* quote improvement of a sell order being
\* buy_amount - ceil(eff_buy * sell_amount / eff_sell) and of a buy order
\* floor(eff_sell * buy_amount / eff_buy) - sell_amount, with
\* eff_sell = quote.sell_amount and
\* eff_buy = ceil((quote.sell_amount - quote.fee_amount) * quote.buy_amount
\*                / quote.sell_amount) for sell orders, and
\* eff_sell = quote.sell_amount + quote.fee_amount and
\* eff_buy = quote.buy_amount for buy orders.
C24_PriceImprovement ==
    (pc = "price_improvement" /\ the_trade.kind \in {"sell", "buy"}) =>
        ret = claimed_price_improvement(the_trade, the_policy.quote)

\* A trade better than its limit by more than it is better than the quote,
\* the quote carrying a fee: the improvement on the quote is the result.
C24_Witness ==
    /\ pc = "price_improvement"
    /\ the_trade.kind \in {"sell", "buy"}
    /\ the_policy.quote.fee_amount > 0
    /\ quote_improvement(the_trade, the_policy.quote) > 0
    /\ quote_improvement(the_trade, the_policy.quote) < surplus(the_trade)
    /\ ret = quote_improvement(the_trade, the_policy.quote)

\* C25: on a trade whose kind is neither "sell" nor "buy", each of volume(),
\* surplus(), surplus_token(), price_improvement(quote) and
\* reverse_protocol_fee of all three fee policy classes fails with the error
\* of an invalid order kind and never returns a value computed from a
\* defaulted kind.
C25_InvalidKindFails ==
    (/\ pc \in {"volume", "surplus", "surplus_token", "price_improvement",
                "reverse_protocol_fee"}
     /\ the_trade.kind \notin {"sell", "buy"})
        => ret = "ValueError"

\* The reversal of a price improvement fee on an order of another kind.
C25_Witness ==
    /\ pc = "reverse_protocol_fee"
    /\ the_policy.type = "PriceImprovement"
    /\ the_trade.kind = "liquidity"
    /\ ret = "ValueError"

\* C29: for each of the three fee policy classes with factors in [0, 1) and
\* any trade, the fee added back is never negative: the reversal on a sell
\* order returns a buy_amount not below that of the input and the reversal
\* on a buy order a sell_amount not above that of the input, also when the
\* surplus or the price improvement of the trade is negative.
C29_FeeNeverNegative ==
    (pc = "reverse_protocol_fee" /\ the_trade.kind \in {"sell", "buy"}) =>
        IF the_trade.kind = "sell"
        THEN ret.buy_amount >= the_trade.buy_amount
        ELSE ret.sell_amount <= the_trade.sell_amount

-----------------------------------------------------------------------------
(* Frame of the reversals (SpecTrade).                                     *)

\* the returned trade differs from the given one in at most the amount a fee
\* is added back to
same_but_for_fee(returned, trade) ==
    IF trade.kind = "sell"
    THEN [returned EXCEPT !.buy_amount = trade.buy_amount] = trade
    ELSE [returned EXCEPT !.sell_amount = trade.sell_amount] = trade

-----------------------------------------------------------------------------
(* Claims about repeated calls of inspect (SpecTwice).                     *)

-----------------------------------------------------------------------------
(* Claims about candidates repeating a call (SpecExecution).               *)

\* the candidate forwards enough gas to the hook: no limit, or not less than
\* the hook asks for
forwards_enough_gas(candidate, hook) ==
    candidate.gas_limit = 0 \/ candidate.gas_limit >= hook.gas_limit

\* C27: an expected hook is accepted by _check_hook_execution if and only if
\* the corresponding list (pre or post) has a candidate with equal target
\* and equal calldata whose gas_limit is 0 (unlimited) or not below the
\* expected gas_limit; in particular a candidate with insufficient gas in
\* front of a matching candidate with sufficient gas does not make the hook
\* fail.
C27_SomeCandidateSuffices ==
    pc = "_check_hook_execution" =>
        ( ret = "True" <=>
            \E i \in 1..Len(candidates_of_call) :
                /\ calls_hook(candidates_of_call[i], expected_hook)
                /\ forwards_enough_gas(candidates_of_call[i], expected_hook) )

-----------------------------------------------------------------------------
(* Claims about an order executed more than once (SpecOrders).             *)

\* the off-chain trade proposes what the on-chain trade executed
proposed_as_executed(onchain_trade, offchain_trade) ==
    /\ onchain_trade.order_uid = offchain_trade.order_uid
    /\ onchain_trade.sell_amount = offchain_trade.sell_amount
    /\ onchain_trade.buy_amount = offchain_trade.buy_amount

\* C28: check_orders enforces the 1-to-1 mapping between executed and
\* proposed trades also when an order_uid occurs more than once in a trade
\* list (the same order executed twice in one settlement): it returns True
\* only if every on-chain trade is matched by an off-chain trade with the
\* same order_uid, sell_amount and buy_amount, and the two lists have the
\* same number of trades.
C28_RepeatedOrders ==
    (pc = "check_orders" /\ ret = "True") =>
        /\ Len(onchain.trades) = Len(offchain.trades)
        /\ \A i \in 1..Len(onchain.trades) :
              \E j \in 1..Len(offchain.trades) :
                  proposed_as_executed(onchain.trades[i], offchain.trades[j])

====
